---- MODULE Spec2Model ----
(***************************************************************************)
(* Model of the napi-bind call bridge: src/src/js_call.rs (invoke_async,   *)
(* await_call, pretty_type_name) and the callers in src/src/lib.rs.        *)
(* Native tasks submit calls to a single-threaded host through a           *)
(* thread-safe function; the host result comes back through a one-shot     *)
(* channel and is normalised into Ok(value) or Err(error).                 *)
(* Strings are sequences of one-character strings.                         *)
(***************************************************************************)
EXTENDS Integers, Sequences, FiniteSets, TLC

(* ---------------------------------------------------------------- bounds *)
\* invocations in the interleaving specification (SpecConc)
MaxCalls == 3
\* invocations in the specifications that range over every result shape
MaxDataCalls == 2
\* longest generated type name handed to the formatter
MaxNameLen == 6
\* passes of the formatter over one name
MaxPasses == 2
\* turns of the helper task's loop {} that are followed
MaxSpins == 2
\* accessor calls made on one BindingWatcherEvent
MaxAccesses == 2

CallIds == 1..MaxCalls
DataCallIds == 1..MaxDataCalls
\* native tasks (threads) that invoke callbacks
Threads == {"t1", "t2"}
\* Callback Handles, and the host functions they point to
Handles == {1, 2}
Funcs == {1, 2}
\* argument tuples (x,)
Args == {41}
Ops == {"invoke_async", "await_call"}
\* the task whose calls Spec and FairSpec follow
MainThread == "t1"

(* --------------------------------------------------------------- strings *)
WordChars ==
  {"a","b","c","d","e","f","g","h","i","j","k","l","m","n","o","p","q","r","s","t",
   "u","v","w","x","y","z","A","B","C","D","E","F","G","H","I","J","K","L","M","N",
   "O","P","Q","R","S","T","U","V","W","X","Y","Z","0","1","2","3","4","5","6","7",
   "8","9","_"}

\* sub occurs in s as a contiguous substring (str::contains)
Contains(s, sub) ==
  \E i \in 1..(Len(s) - Len(sub) + 1) : SubSeq(s, i, i + Len(sub) - 1) = sub

StartsWith(s, pre) == Len(pre) <= Len(s) /\ SubSeq(s, 1, Len(pre)) = pre

\* Length of the longest run of \w characters of s that starts at position i.
WordRun(s, i) ==
  LET end == CHOOSE n \in i..(Len(s) + 1) :
               /\ (n > Len(s) \/ s[n] \notin WordChars)
               /\ \A k \in i..(n - 1) : s[k] \in WordChars
  IN end - i

\* Mutant: the pattern is [a-z]+:: and a capitalised qualifier is left in place.
MatchAt_LowerCase(s, i) ==
  LET n == WordRun(s, i)
  IN IF /\ n > 0 /\ i + n + 1 <= Len(s) /\ s[i + n] = ":" /\ s[i + n + 1] = ":"
        /\ \A k \in i..(i + n - 1) : s[k] \in {"m", "o", "d", "u", "l", "e"}
     THEN n + 2 ELSE 0

\* Length of the match of the regex (?:\w+::) anchored at position i, 0 if none.
\* \w+ is greedy; giving characters back never helps, since the character after
\* a shorter run is a word character and not ':'.
MatchAt(s, i) ==
  LET n == WordRun(s, i)
  IN IF n > 0 /\ i + n + 1 <= Len(s) /\ s[i + n] = ":" /\ s[i + n + 1] = ":"
     THEN n + 2 ELSE 0

\* Mutant: Regex::replace, which removes the first match only.
ReplaceFrom_FirstOnly(s, i) ==
  IF \A j \in i..Len(s) : MatchAt(s, j) = 0 THEN SubSeq(s, i, Len(s))
  ELSE LET j == CHOOSE m \in i..Len(s) :
                  /\ MatchAt(s, m) > 0
                  /\ \A o \in i..(m - 1) : MatchAt(s, o) = 0
       IN SubSeq(s, i, j - 1) \o SubSeq(s, j + MatchAt(s, j), Len(s))

\* Regex::replace_all(name, ""): the leftmost match at or after position i is
\* removed, the text before it is kept, and the scan resumes right after it.
RECURSIVE ReplaceFrom(_, _)
ReplaceFrom(s, i) ==
  IF \A j \in i..Len(s) : MatchAt(s, j) = 0 THEN SubSeq(s, i, Len(s))
  ELSE LET j == CHOOSE m \in i..Len(s) :
                  /\ MatchAt(s, m) > 0
                  /\ \A o \in i..(m - 1) : MatchAt(s, o) = 0
       IN SubSeq(s, i, j - 1) \o ReplaceFrom(s, j + MatchAt(s, j))

prettify_type_name(name) == ReplaceFrom(name, 1)

(* ------------------------------------------------------------ type names *)
\* std::any::type_name of the Ret parameter a handle is bound with.
RetTypeName(h) ==
  IF h = 1 THEN <<"m","o","d","u","l","e",":",":","S","u","b",":",":","T","y","p","e">>
  ELSE IF h = 2 THEN <<"a","l","l","o","c",":",":","v","e","c",":",":","V","e","c","<","m",":",":","T",">">>
  ELSE <<"u","3","2">>

ArgsTypeName == <<"(","i","3","2",",",")">>

\* std::any::type_name of JsCallback<Args, Either<Promise<Ret>, Ret>>, that is of
\* Arc<ThreadsafeFunction<Args, Either<Either<Promise<Ret>, Ret>, UnknownReturnValue>,
\* Args, false, true>>, every path written with its module qualifiers (the napi
\* paths shortened to the crate name).
SelfTypeName(h) ==
  <<"a","l","l","o","c",":",":","s","y","n","c",":",":","A","r","c","<","n","a","p","i",":",":","t","h","r","e","a","d","s","a","f","e","_","f","u","n","c","t","i","o","n",":",":","T","h","r","e","a","d","s","a","f","e","F","u","n","c","t","i","o","n","<">>
  \o ArgsTypeName
  \o <<","," ","n","a","p","i",":",":","E","i","t","h","e","r","<","n","a","p","i",":",":","E","i","t","h","e","r","<">>
  \o <<"n","a","p","i",":",":","P","r","o","m","i","s","e","<">>
  \o RetTypeName(h) \o <<">",","," ">> \o RetTypeName(h) \o <<">">>
  \o <<","," ","n","a","p","i",":",":","t","h","r","e","a","d","s","a","f","e","_","f","u","n","c","t","i","o","n",":",":","U","n","k","n","o","w","n","R","e","t","u","r","n","V","a","l","u","e",">",","," ">>
  \o ArgsTypeName
  \o <<","," ","f","a","l","s","e",","," ","t","r","u","e",">",">">>

pretty_type_name_Ret(h) == prettify_type_name(RetTypeName(h))

\* Mutant: the owning type is reported by its raw, module-qualified name.
pretty_type_name_Self_Raw(h) == SelfTypeName(h)

pretty_type_name_Self(h) == prettify_type_name(SelfTypeName(h))

(* ---------------------------------------------------------------- errors *)
NoErr == [status |-> "Ok", reason |-> <<>>]

\* Errors the host call mechanism raises while the call is submitted.
QueueFull ==
  [status |-> "QueueFull", reason |-> <<"q","u","e","u","e"," ","f","u","l","l">>]
Closing == [status |-> "Closing", reason |-> <<"c","l","o","s","i","n","g">>]
SubmitErrors == {QueueFull, Closing}

\* Error delivered by the host instead of a result (host-side exception).
HostErrors ==
  { [status |-> "PendingException", reason |-> <<"t","h","r","o","w","n">>] }

\* Failures a deferred value settles with.
PromiseErrors ==
  { [status |-> "GenericFailure", reason |-> <<"r","e","j","e","c","t","e","d">>],
    [status |-> "Cancelled", reason |-> <<"a","b","o","r","t","e","d">>] }

\* The backtick character U+0060, which a TLA+ string literal cannot hold.
BT == "BACKTICK"

JsTypeUnknown == <<"u","n","k","n","o","w","n">>

MsgPrefix ==
  <<"U","N","K","N","O","W","N","_","R","E","T","U","R","N","_","V","A","L","U","E",".",
    " ","C","a","n","n","o","t"," ","c","o","n","v","e","r","t"," ">>

\* format!("UNKNOWN_RETURN_VALUE. Cannot convert {js_type} to BTBT in "), BT the backtick
InvokeUnknownMessage(js_type) ==
  MsgPrefix \o js_type \o <<" ","t","o"," ",BT,BT," ","i","n"," ">>

\* format!("UNKNOWN_RETURN_VALUE. Cannot convert {js_type} to BT{expected_rust_type}BT in {}.",
\*         pretty_type_name::<Self>())
AwaitUnknownMessage(js_type, expected_rust_type, self_type) ==
  MsgPrefix \o js_type \o <<" ","t","o"," ",BT>> \o expected_rust_type
  \o <<BT," ","i","n"," ">> \o self_type \o <<".">>

\* Mutant: the error is built with another status.
InvokeUnknownError_Generic ==
  [status |-> "GenericFailure", reason |-> InvokeUnknownMessage(JsTypeUnknown)]

\* napi::Error::new(napi::Status::InvalidArg, format!(..)) of invoke_async
InvokeUnknownError ==
  [status |-> "InvalidArg", reason |-> InvokeUnknownMessage(JsTypeUnknown)]

\* napi::Error::new(napi::Status::InvalidArg, format!(..)) of await_call, for each
\* handle (a table, so that the message is built once per handle)
AwaitUnknownErrors ==
  [h \in Handles |->
     [status |-> "InvalidArg",
      reason |-> AwaitUnknownMessage(JsTypeUnknown, pretty_type_name_Ret(h),
                                     pretty_type_name_Self(h))]]

AwaitUnknownError(h) == AwaitUnknownErrors[h]

(* ----------------------------------------------------------- the values *)
\* A call_async result: Ok(Either::A(ret)) is "value", Ok(Either::A(Either::A(promise)))
\* is "promise", Ok(Either::B(unknown)) is "unknown", Err(e) is "error".
NoResult == [kind |-> "none", val |-> 0, err |-> NoErr]
ValueResult(v) == [kind |-> "value", val |-> v, err |-> NoErr]
PromiseResult == [kind |-> "promise", val |-> 0, err |-> NoErr]
UnknownResult == [kind |-> "unknown", val |-> 0, err |-> NoErr]
ErrorResult(e) == [kind |-> "error", val |-> 0, err |-> e]

\* Result<Ret, napi::Error>
Ok(v) == [kind |-> "Ok", val |-> v, err |-> NoErr]
Err(e) == [kind |-> "Err", val |-> 0, err |-> e]

\* A deferred value: not created, pending, or settled.
NoPromise == [kind |-> "none", val |-> 0, err |-> NoErr]
Pending == [kind |-> "pending", val |-> 0, err |-> NoErr]
Resolved(v) == [kind |-> "resolved", val |-> v, err |-> NoErr]
Rejected(e) == [kind |-> "rejected", val |-> 0, err |-> e]

NoCall == [thread |-> "none", op |-> "none", handle |-> 0, args |-> 0]

\* The host function f applied to the argument tuple (a,): function 1 is x + 1.
HostValue(f, a) == a + f

(* ------------------------------------------------------------- the state *)
VARIABLES
  handleFn,   \* Callback Handle -> the host function its Arc points to
  calls,      \* invocation -> [thread, op, handle, args], NoCall before it starts
  pc,         \* invocation -> "idle", "await_host", "await_promise", "done", "dropped"
  submits,    \* invocation -> number of call_async calls it has made
  refusal,    \* invocation -> the error its submission was refused with, or NoErr
  queue,      \* host function -> the calls queued for it, oldest first
  running,    \* the calls the host thread is executing
  execs,      \* invocation -> number of times the host started executing it
  arrivals,   \* the calls in the order the host started them
  chan,       \* invocation -> the result sent through its one-shot channel
  promise,    \* invocation -> the deferred value the host returned for it
  outcomes,   \* invocation -> the outcomes it returned, in order
  awaited,    \* invocation -> the .await expressions its future has entered
  type_name,  \* the type name handed to prettify_type_name
  passes,     \* the results of prettify_type_name, each pass fed the one before
  watcher,    \* the BindingWatcher method in progress and the tasks it spawned
  printed,    \* what the listener task wrote to stdout and stderr, in order
  event,      \* the inner WatcherEvent of a BindingWatcherEvent
  eventLog    \* the accessor calls made on the event, with their results

\* The state of the call bridge.
callVars == <<handleFn, calls, pc, submits, refusal, queue, running, execs, arrivals,
              chan, promise, outcomes, awaited>>
nameVars == <<type_name, passes>>
watchVars == <<watcher, printed>>
eventVars == <<event, eventLog>>

\* The state outside the call bridge.
others == <<nameVars, watchVars, eventVars>>

vars == <<callVars, others>>

\* No callback has been invoked yet.
CallInit ==
  /\ handleFn = [h \in Handles |-> h]
  /\ calls = [c \in CallIds |-> NoCall]
  /\ pc = [c \in CallIds |-> "idle"]
  /\ submits = [c \in CallIds |-> 0]
  /\ refusal = [c \in CallIds |-> NoErr]
  /\ queue = [f \in Funcs |-> <<>>]
  /\ running = {}
  /\ execs = [c \in CallIds |-> 0]
  /\ arrivals = <<>>
  /\ chan = [c \in CallIds |-> NoResult]
  /\ promise = [c \in CallIds |-> NoPromise]
  /\ outcomes = [c \in CallIds |-> <<>>]
  /\ awaited = [c \in CallIds |-> <<>>]

\* No type name is being formatted.
NameIdle == type_name = <<>> /\ passes = <<>>

\* No BindingWatcher method has been called.
NoWatcher ==
  [op |-> "none", pc |-> "idle", listener |-> 0, f |-> "none", helper |-> "none",
   spins |-> 0, result |-> <<>>]

WatcherIdle == watcher = NoWatcher /\ printed = <<>>

\* No BindingWatcherEvent has been constructed.
NoEvent == [kind |-> "none", bundle |-> "none"]

EventIdle == event = NoEvent /\ eventLog = <<>>

Init == CallInit /\ NameIdle /\ WatcherIdle /\ EventIdle

\* The next invocation to start: invocations are numbered in the order they start.
IsNext(c) == pc[c] = "idle" /\ \A d \in CallIds : d < c => pc[d] # "idle"

(* ------------------------------------------------------ the host (queue) *)
\* Mutant: the queue hands out the newest call first.
Enqueue_Front(q, c) == <<c>> \o q

\* napi_call_threadsafe_function: the call joins the queue of its function.
Enqueue(q, c) == Append(q, c)

\* The single host thread starts a call only when it is executing none.
HostStartGuard == running = {}

\* The host thread takes the oldest call of some function's queue.
HostStart(f) ==
  /\ HostStartGuard
  /\ queue[f] # <<>>
  /\ LET c == Head(queue[f])
     IN /\ queue' = [queue EXCEPT ![f] = Tail(@)]
        /\ running' = running \cup {c}
        /\ execs' = [execs EXCEPT ![c] = @ + 1]
        /\ arrivals' = Append(arrivals, c)
  /\ UNCHANGED <<others, awaited, handleFn, calls, pc, submits, refusal, chan, promise, outcomes>>

\* The value the host function of call c computes from the call's arguments.
CallValue(c) == HostValue(handleFn[calls[c].handle], calls[c].args)

\* The shapes the host function of call c may return.
HostResults(c) ==
  {ValueResult(CallValue(c)), UnknownResult}
  \cup {ErrorResult(e) : e \in HostErrors}
  \cup (IF calls[c].op = "await_call" THEN {PromiseResult} ELSE {})

\* The host function returns r; the callback sends it through the call's
\* channel. With the receiver dropped the send fails and the result is discarded.
HostFinish(c, r) ==
  /\ c \in running
  /\ r \in HostResults(c)
  /\ running' = running \ {c}
  /\ IF pc[c] = "dropped"
     THEN UNCHANGED <<chan, promise>>
     ELSE /\ chan' = [chan EXCEPT ![c] = r]
          /\ promise' = [promise EXCEPT ![c] =
                           IF r.kind = "promise" THEN Pending ELSE @]
  /\ UNCHANGED <<others, awaited, handleFn, calls, pc, submits, refusal, queue, execs, arrivals,
                 outcomes>>

\* The calls whose deferred value is not settled yet.
Deferred == {c \in CallIds : promise[c].kind = "pending"}

\* What the deferred value of call c may settle with.
Settlements(c) ==
  {Resolved(CallValue(c))} \cup {Rejected(e) : e \in PromiseErrors}

\* The host settles a deferred value.
PromiseSettle(c, s) ==
  /\ promise[c].kind = "pending"
  /\ s \in Settlements(c)
  /\ promise' = [promise EXCEPT ![c] = s]
  /\ UNCHANGED <<others, awaited, handleFn, calls, pc, submits, refusal, queue, running, execs,
                 arrivals, chan, outcomes>>

(* ----------------------------------------------------------- call_async *)
\* Mutant: an invocation points its handle at another host function.
HandleAfterCall_Rebinds(h) ==
  [handleFn EXCEPT ![h] = CHOOSE f \in Funcs : f # handleFn[h]]

\* The handles after an invocation on handle h: both operations take &self and
\* the Arc is never assigned, so every handle, and every clone of it, points at
\* the function it was constructed with.
HandleAfterCall(h) == handleFn

\* Mutant: an accepted call is handed to the host twice.
CallAsyncSubmit_Twice(c, h, e) ==
  /\ submits' = [submits EXCEPT ![c] = @ + 1]
  /\ refusal' = [refusal EXCEPT ![c] = e]
  /\ IF e = NoErr
     THEN queue' = [queue EXCEPT ![handleFn[h]] = Enqueue(Enqueue(@, c), c)]
     ELSE queue' = queue

\* self.call_async(args): either the host mechanism refuses the call with the
\* error e, or (e = NoErr) the call is queued for the handle's function.
CallAsyncSubmit(c, h, e) ==
  /\ submits' = [submits EXCEPT ![c] = @ + 1]
  /\ refusal' = [refusal EXCEPT ![c] = e]
  /\ IF e = NoErr
     THEN queue' = [queue EXCEPT ![handleFn[h]] = Enqueue(@, c)]
     ELSE queue' = queue

\* Mutant: an outcome is produced but the invocation goes on.
Return_KeepsRunning(c, o) ==
  /\ pc' = pc
  /\ outcomes' = [outcomes EXCEPT ![c] = Append(@, o)]

\* An invocation returns: its future completes with one outcome.
Return(c, o) ==
  /\ pc' = [pc EXCEPT ![c] = "done"]
  /\ outcomes' = [outcomes EXCEPT ![c] = Append(@, o)]

\* Mutant: the invocation reads the first result delivered to any invocation.
Received_Shared(c) ==
  chan[CHOOSE d \in CallIds :
         /\ chan[d].kind # "none"
         /\ \A o \in CallIds : o < d => chan[o].kind = "none"]

\* What self.call_async(args).await yields to invocation c: the result sent
\* through the channel of the future this invocation created and holds.
Received(c) == chan[c]

(* ---------------------------------------------------------- invoke_async *)
\* Mutant: the converted value is lost and a default is returned.
InvokeAsyncMatch_DropsValue(r) ==
  CASE r.kind = "error" -> Err(r.err)
    [] r.kind = "value" -> Ok(0)
    [] OTHER -> Err(InvokeUnknownError)

\* match self.call_async(args).await? { A(ret) => Ok(ret), B(_) => Err(InvalidArg ..) }
InvokeAsyncMatch(r) ==
  CASE r.kind = "error" -> Err(r.err)
    [] r.kind = "value" -> Ok(r.val)
    [] OTHER -> Err(InvokeUnknownError)

\* First poll of invoke_async: call_async submits the call; a refused submission
\* returns through `?` at once.
InvokeAsyncSubmit(c, t, h, a, e) ==
  /\ IsNext(c)
  /\ calls' = [calls EXCEPT ![c] =
                 [thread |-> t, op |-> "invoke_async", handle |-> h, args |-> a]]
  /\ CallAsyncSubmit(c, h, e)
  /\ IF e = NoErr
     THEN pc' = [pc EXCEPT ![c] = "await_host"] /\ outcomes' = outcomes
     ELSE Return(c, InvokeAsyncMatch(ErrorResult(e)))
  /\ handleFn' = HandleAfterCall(h)
  /\ awaited' = [awaited EXCEPT ![c] = Append(@, "call_async")]
  /\ UNCHANGED <<others, running, execs, arrivals, chan, promise>>

\* The host result arrived: the task resumes and the match decides the outcome.
InvokeAsyncResume(c) ==
  /\ pc[c] = "await_host"
  /\ calls[c].op = "invoke_async"
  /\ chan[c].kind # "none"
  /\ Return(c, InvokeAsyncMatch(Received(c)))
  /\ UNCHANGED <<others, awaited, handleFn, calls, submits, refusal, queue, running, execs, arrivals,
                 chan, promise>>

(* ------------------------------------------------------------ await_call *)
\* Mutant: an error of the host call is reclassified.
AwaitCallMatch_Reclassifies(h, r) ==
  CASE r.kind = "error" -> Err([status |-> "GenericFailure", reason |-> r.err.reason])
    [] r.kind = "value" -> Ok(r.val)
    [] OTHER -> Err(AwaitUnknownError(h))

\* The arms of await_call's match that return without a further suspension.
AwaitCallMatch(h, r) ==
  CASE r.kind = "error" -> Err(r.err)
    [] r.kind = "value" -> Ok(r.val)
    [] OTHER -> Err(AwaitUnknownError(h))

\* Mutant: the failure of a deferred value is wrapped in a new error.
PromiseAwait_Wraps(p) ==
  IF p.kind = "resolved" THEN Ok(p.val)
  ELSE Err([status |-> "GenericFailure",
            reason |-> <<"p","r","o","m","i","s","e",":"," ">> \o p.err.reason])

\* promise.await: the outcome of a settled deferred value.
PromiseAwait(p) ==
  IF p.kind = "resolved" THEN Ok(p.val) ELSE Err(p.err)

\* Mutant: a refused submission is tried a second time.
AwaitCallSubmit_Retry(c, t, h, a, e) ==
  /\ IsNext(c)
  /\ calls' = [calls EXCEPT ![c] =
                 [thread |-> t, op |-> "await_call", handle |-> h, args |-> a]]
  /\ submits' = [submits EXCEPT ![c] = IF e = NoErr THEN @ + 1 ELSE @ + 2]
  /\ refusal' = [refusal EXCEPT ![c] = e]
  /\ IF e = NoErr
     THEN /\ queue' = [queue EXCEPT ![handleFn[h]] = Enqueue(@, c)]
          /\ pc' = [pc EXCEPT ![c] = "await_host"] /\ outcomes' = outcomes
     ELSE /\ queue' = queue
          /\ Return(c, AwaitCallMatch(h, ErrorResult(e)))
  /\ handleFn' = HandleAfterCall(h)
  /\ awaited' = [awaited EXCEPT ![c] = Append(@, "call_async")]
  /\ UNCHANGED <<others, running, execs, arrivals, chan, promise>>

\* First poll of await_call.
AwaitCallSubmit(c, t, h, a, e) ==
  /\ IsNext(c)
  /\ calls' = [calls EXCEPT ![c] =
                 [thread |-> t, op |-> "await_call", handle |-> h, args |-> a]]
  /\ CallAsyncSubmit(c, h, e)
  /\ IF e = NoErr
     THEN pc' = [pc EXCEPT ![c] = "await_host"] /\ outcomes' = outcomes
     ELSE Return(c, AwaitCallMatch(h, ErrorResult(e)))
  /\ handleFn' = HandleAfterCall(h)
  /\ awaited' = [awaited EXCEPT ![c] = Append(@, "call_async")]
  /\ UNCHANGED <<others, running, execs, arrivals, chan, promise>>

\* Mutant: a plain value is awaited like a deferred one.
AwaitsPromise_PlainToo(r) == r.kind \in {"promise", "value"}

\* Ok(Either::A(Either::A(promise))) is the one arm with a second .await.
AwaitsPromise(r) == r.kind = "promise"

\* The host result arrived: a deferred value is awaited, any other shape returns.
AwaitCallResume(c) ==
  /\ pc[c] = "await_host"
  /\ calls[c].op = "await_call"
  /\ chan[c].kind # "none"
  /\ IF AwaitsPromise(Received(c))
     THEN /\ pc' = [pc EXCEPT ![c] = "await_promise"] /\ outcomes' = outcomes
          /\ awaited' = [awaited EXCEPT ![c] = Append(@, "promise")]
     ELSE /\ Return(c, AwaitCallMatch(calls[c].handle, Received(c)))
          /\ awaited' = awaited
  /\ UNCHANGED <<others, handleFn, calls, submits, refusal, queue, running, execs, arrivals,
                 chan, promise>>

\* The deferred value settled: promise.await returns.
AwaitCallPromise(c) ==
  /\ pc[c] = "await_promise"
  /\ promise[c].kind \in {"resolved", "rejected"}
  /\ Return(c, PromiseAwait(promise[c]))
  /\ UNCHANGED <<others, awaited, handleFn, calls, submits, refusal, queue, running, execs, arrivals,
                 chan, promise>>

\* Mutant: dropping the future takes its call back out of the queue.
QueuesAfterDrop_Retracts(c) ==
  [f \in Funcs |-> SelectSeq(queue[f], LAMBDA d : d # c)]

\* What dropping the future of call c leaves in the host queues: the future holds
\* the receiving end of the channel only, so the queues are as they were.
QueuesAfterDrop(c) == queue

\* The future is dropped at one of its suspension points (its task is aborted or
\* the runtime shuts down).
DropTask(c) ==
  /\ pc[c] \in {"await_host", "await_promise"}
  /\ pc' = [pc EXCEPT ![c] = "dropped"]
  /\ queue' = QueuesAfterDrop(c)
  /\ UNCHANGED <<others, awaited, handleFn, calls, submits, refusal, running, execs, arrivals, chan,
                 promise, outcomes>>

(* ---------------------------------------------------- the specifications *)
SubmitResults == {NoErr} \cup SubmitErrors

\* Calls of one task, every argument, every result shape, run to their outcome.
Next ==
  \/ \E c \in DataCallIds, h \in Handles, a \in Args, e \in SubmitResults :
       InvokeAsyncSubmit(c, MainThread, h, a, e)
  \/ \E c \in DataCallIds, h \in Handles, a \in Args, e \in SubmitResults :
       AwaitCallSubmit(c, MainThread, h, a, e)
  \/ \E f \in Funcs : HostStart(f)
  \/ \E c \in running : \E r \in HostResults(c) : HostFinish(c, r)
  \/ \E c \in Deferred : \E s \in Settlements(c) : PromiseSettle(c, s)
  \/ \E c \in CallIds : InvokeAsyncResume(c)
  \/ \E c \in CallIds : AwaitCallResume(c)
  \/ \E c \in CallIds : AwaitCallPromise(c)

Spec == Init /\ [][Next]_vars

\* Calls of several tasks on several handles, up to the delivery of the host
\* result, which is a plain value; the host refuses a call when its queue is full.
ConcNext ==
  \/ \E c \in CallIds, t \in Threads, h \in Handles, a \in Args,
        e \in {NoErr, QueueFull} :
       InvokeAsyncSubmit(c, t, h, a, e)
  \/ \E c \in CallIds, t \in Threads, h \in Handles, a \in Args,
        e \in {NoErr, QueueFull} :
       AwaitCallSubmit(c, t, h, a, e)
  \/ \E f \in Funcs : HostStart(f)
  \/ \E c \in running : HostFinish(c, ValueResult(CallValue(c)))

SpecConc == Init /\ [][ConcNext]_vars

\* await_call of one task, whose future may be dropped at either suspension
\* point; the host returns a plain value or a deferred value that resolves.
DropNext ==
  \/ \E c \in DataCallIds, h \in Handles, a \in Args, e \in SubmitResults :
       AwaitCallSubmit(c, MainThread, h, a, e)
  \/ \E f \in Funcs : HostStart(f)
  \/ \E c \in running : \E r \in {ValueResult(CallValue(c)), PromiseResult} :
       HostFinish(c, r)
  \/ \E c \in Deferred : PromiseSettle(c, Resolved(CallValue(c)))
  \/ \E c \in CallIds : AwaitCallResume(c)
  \/ \E c \in CallIds : AwaitCallPromise(c)
  \/ \E c \in CallIds : DropTask(c)

\* The host keeps running: its event loop starts every queued call and every
\* started call returns.
FairSpec ==
  /\ Init /\ [][DropNext]_vars
  /\ \A f \in Funcs : WF_vars(HostStart(f))
  /\ WF_vars(\E c \in running : \E r \in {ValueResult(CallValue(c)), PromiseResult} :
               HostFinish(c, r))

\* Argument tuples of the invocations that run side by side.
OwnArgs == {1, 41}

\* The task that makes invocation c: successive invocations come from
\* different spawned tasks.
OwnTask(c) == IF c % 2 = 1 THEN "t1" ELSE "t2"

\* Invocations of several tasks in flight at once, on the same or on different
\* handles, each with its own arguments, run to their outcome; the host
\* returns a plain value or a deferred value that resolves.
OwnNext ==
  \/ \E c \in DataCallIds, h \in Handles, a \in OwnArgs :
       InvokeAsyncSubmit(c, OwnTask(c), h, a, NoErr)
  \/ \E c \in DataCallIds, h \in Handles, a \in OwnArgs :
       AwaitCallSubmit(c, OwnTask(c), h, a, NoErr)
  \/ \E f \in Funcs : HostStart(f)
  \/ \E c \in running :
       \E r \in {ValueResult(CallValue(c))}
                 \cup (IF calls[c].op = "await_call" THEN {PromiseResult} ELSE {}) :
         HostFinish(c, r)
  \/ \E c \in Deferred : PromiseSettle(c, Resolved(CallValue(c)))
  \/ \E c \in CallIds : InvokeAsyncResume(c)
  \/ \E c \in CallIds : AwaitCallResume(c)
  \/ \E c \in CallIds : AwaitCallPromise(c)

OwnSpec == Init /\ [][OwnNext]_vars

(* ------------------------------------------------ the diagnostic formatter *)
\* Characters of the generated names: two identifier characters, the colon of
\* the path separator and the brackets of a generic argument list.
NameAlphabet == {"m", "T", ":", "<"}

\* The names handed to prettify_type_name: every string over NameAlphabet up to
\* MaxNameLen characters, and the type names the handles are bound with.
NameInputs ==
  UNION {[1..n -> NameAlphabet] : n \in 0..MaxNameLen}
  \cup {RetTypeName(h) : h \in Handles}

\* pretty_type_name::<T>() formats std::any::type_name::<T>(); a further pass
\* formats the label the pass before it returned.
PrettifyPass ==
  /\ Len(passes) < MaxPasses
  /\ passes' = Append(passes,
                      prettify_type_name(IF passes = <<>> THEN type_name
                                         ELSE passes[Len(passes)]))
  /\ UNCHANGED <<callVars, type_name, watchVars, eventVars>>

NameInit ==
  CallInit /\ type_name \in NameInputs /\ passes = <<>> /\ WatcherIdle /\ EventIdle

NameNext == PrettifyPass

NameSpec == NameInit /\ [][NameNext]_vars

(* ------------------------------------------------------ BindingWatcher *)
WatcherOps == {"start", "loop_spawn"}

\* The task spawn(f) runs the listener in.
ListenerTask == "listener"

\* The invocations the listener task has made.
ListenerCalls == {c \in CallIds : calls[c].thread = ListenerTask}

\* start / loop_spawn up to the first suspension: the future f is built around
\* the listener and spawned, the helper task is spawned, and the method awaits
\* the helper's JoinHandle.
WatcherCall(op, h) ==
  /\ watcher.op = "none"
  /\ watcher' = [watcher EXCEPT !.op = op, !.pc = "await_helper", !.listener = h,
                                 !.f = "spawned", !.helper = "spawned"]
  /\ UNCHANGED <<callVars, nameVars, eventVars, printed>>

\* The spawned future f reaches listener.await_call(()) once: it has no loop.
ListenerMayCall == watcher.f = "spawned" /\ ListenerCalls = {}

\* f: listener.await_call(()), first poll. The model's argument tuple stands
\* for the unit tuple.
ListenerCall(c, a, e) ==
  /\ ListenerMayCall
  /\ AwaitCallSubmit(c, ListenerTask, watcher.listener, a, e)

\* What f prints for the outcome o of its call: an error goes to stdout and to
\* stderr, a value is dropped.
ListenerPrints(o) ==
  IF o.kind = "Err"
  THEN <<[stream |-> "stdout", err |-> o.err], [stream |-> "stderr", err |-> o.err]>>
  ELSE <<>>

\* f after listener.await_call(()).await: if let Err(e) prints e, then f ends.
ListenerFinish(c) ==
  /\ watcher.f = "spawned"
  /\ c \in ListenerCalls
  /\ pc[c] = "done"
  /\ printed' = printed \o ListenerPrints(outcomes[c][1])
  /\ watcher' = [watcher EXCEPT !.f = "finished"]
  /\ UNCHANGED <<callVars, nameVars, eventVars>>

\* Mutant: the helper task of loop_spawn ends like the one of start.
HelperAfterPrint_Ends(op) == "finished"

\* The helper task after its println: the one of start ends, the one of
\* loop_spawn enters loop {}.
HelperAfterPrint(op) == IF op = "start" THEN "finished" ELSE "looping"

\* The helper task is polled.
HelperRun ==
  /\ watcher.helper = "spawned"
  /\ watcher' = [watcher EXCEPT !.helper = HelperAfterPrint(watcher.op)]
  /\ UNCHANGED <<callVars, nameVars, eventVars, printed>>

\* One more turn of loop {}: the loop has no exit.
HelperSpin ==
  /\ watcher.helper = "looping"
  /\ watcher.spins < MaxSpins
  /\ watcher' = [watcher EXCEPT !.spins = @ + 1]
  /\ UNCHANGED <<callVars, nameVars, eventVars, printed>>

\* Mutant: the method returns the error its listener task printed.
WatcherResult_ListenerError ==
  IF printed = <<>> THEN Ok(0) ELSE Err(printed[1].err)

\* Ok(()) of start and loop_spawn.
WatcherResult == Ok(0)

\* The helper's JoinHandle completed: the method resumes, drops the join
\* result and returns Ok(()).
WatcherReturn ==
  /\ watcher.pc = "await_helper"
  /\ watcher.helper = "finished"
  /\ watcher' = [watcher EXCEPT !.pc = "returned", !.result = <<WatcherResult>>]
  /\ UNCHANGED <<callVars, nameVars, eventVars, printed>>

\* One call of start or loop_spawn with its two spawned tasks, the host
\* answering the listener call with every result shape.
WatcherNext ==
  \/ \E op \in WatcherOps, h \in Handles : WatcherCall(op, h)
  \/ \E c \in DataCallIds, a \in Args, e \in SubmitResults : ListenerCall(c, a, e)
  \/ \E f \in Funcs : HostStart(f)
  \/ \E c \in running : \E r \in HostResults(c) : HostFinish(c, r)
  \/ \E c \in Deferred : \E s \in Settlements(c) : PromiseSettle(c, s)
  \/ \E c \in CallIds : AwaitCallResume(c)
  \/ \E c \in CallIds : AwaitCallPromise(c)
  \/ \E c \in CallIds : ListenerFinish(c)
  \/ HelperRun
  \/ HelperSpin
  \/ WatcherReturn

WatcherSpec == Init /\ [][WatcherNext]_vars

(* -------------------------------------------------- BindingWatcherEvent *)
\* enum BundleEvent
BundleEvents == {"Start", "BundleStart", "End"}

\* enum WatcherEvent: Close, Event(BundleEvent), ReStart
WatcherEvents ==
  {[kind |-> "Close", bundle |-> "none"], [kind |-> "ReStart", bundle |-> "none"]}
  \cup {[kind |-> "Event", bundle |-> b] : b \in BundleEvents}

\* A call returns a value or panics with a message.
Returned(v) == [kind |-> "returned", val |-> v]
Panic(msg) == [kind |-> "panic", val |-> msg]

\* impl Display for WatcherEvent
WatcherEventDisplay(e) ==
  CASE e.kind = "Close" -> "close"
    [] e.kind = "Event" -> "event"
    [] e.kind = "ReStart" -> "restart"

\* impl Display for BundleEvent
BundleEventDisplay(b) ==
  CASE b = "Start" -> "START"
    [] b = "BundleStart" -> "BUNDLE_START"
    [] b = "End" -> "END"

\* self.inner.to_string()
event_kind(e) == Returned(WatcherEventDisplay(e))

\* match &self.inner { _ => unreachable!(..) }
watch_change_data(e) ==
  Panic("internal error: entered unreachable code: Expected WatcherEvent::Change")

bundle_end_data(e) ==
  Panic("internal error: entered unreachable code: Expected WatcherEvent::Event(BundleEventKind::BundleEnd)")

\* Mutant: an event that is no bundle event is reported by its own kind.
bundle_event_kind_Lenient(e) ==
  IF e.kind = "Event" THEN Returned(BundleEventDisplay(e.bundle))
  ELSE Returned(WatcherEventDisplay(e))

\* match &self.inner { WatcherEvent::Event(kind) => kind.to_string(),
\*                     _ => unreachable!("Expected WatcherEvent::Event") }
bundle_event_kind(e) ==
  IF e.kind = "Event" THEN Returned(BundleEventDisplay(e.bundle))
  ELSE Panic("internal error: entered unreachable code: Expected WatcherEvent::Event")

\* unimplemented!("errors")
errors(e) == Panic("not implemented: errors")

Accessors ==
  {"event_kind", "watch_change_data", "bundle_end_data", "bundle_event_kind", "errors"}

\* The accessor m called on an event whose inner value is e.
Access(m, e) ==
  CASE m = "event_kind" -> event_kind(e)
    [] m = "watch_change_data" -> watch_change_data(e)
    [] m = "bundle_end_data" -> bundle_end_data(e)
    [] m = "bundle_event_kind" -> bundle_event_kind(e)
    [] m = "errors" -> errors(e)

\* BindingWatcherEvent::new(inner)
EventNew(inner) ==
  /\ event = NoEvent
  /\ event' = inner
  /\ UNCHANGED <<callVars, nameVars, watchVars, eventLog>>

\* An accessor is called on the event; a panic leaves the event as it was.
EventAccess(m) ==
  /\ event # NoEvent
  /\ Len(eventLog) < MaxAccesses
  /\ eventLog' = Append(eventLog, [method |-> m, result |-> Access(m, event)])
  /\ UNCHANGED <<callVars, nameVars, watchVars, event>>

EventNext ==
  \/ \E inner \in WatcherEvents : EventNew(inner)
  \/ \E m \in Accessors : EventAccess(m)

EventSpec == Init /\ [][EventNext]_vars

(* ------------------------------------------------------------ properties *)
\* Number of places call c holds in the host queues.
QueuedCount(c) ==
  Cardinality(UNION {{<<f, i>> : i \in {j \in 1..Len(queue[f]) : queue[f][j] = c}} :
                       f \in Funcs})

InQueue(c) == QueuedCount(c) > 0

\* The host has executed call c to completion.
HostDone(c) == execs[c] > 0 /\ c \notin running

\* Call c was submitted and the host mechanism accepted it.
Accepted(c) == pc[c] # "idle" /\ refusal[c] = NoErr

\* Position of call c in the order the host started the calls.
Arrival(c) == CHOOSE i \in 1..Len(arrivals) : arrivals[i] = c

Arrived(c) == \E i \in 1..Len(arrivals) : arrivals[i] = c

Finished(c, op, kind) ==
  pc[c] = "done" /\ calls[c].op = op /\ chan[c].kind = kind

\* C1: when the host call returns a plain value v of the expected type, the
\* operation (invoke_async or await_call) returns Ok(v) with exactly that value.
C1_PlainValueReturned ==
  \A c \in CallIds :
    (pc[c] = "done" /\ chan[c].kind = "value")
      => outcomes[c] = <<Ok(chan[c].val)>>

C1_Witness ==
  \E c, d \in CallIds :
    /\ Finished(c, "invoke_async", "value")
    /\ Finished(d, "await_call", "value")
    /\ chan[c].val # chan[d].val
    /\ chan[c].val = 42

\* C2: when the host returns a deferred value, await_call returns only after it
\* settles: Ok(v) if it settles with v, Err(e) with e unmodified if it fails.
C2_DeferredOutcome ==
  \A c \in CallIds :
    chan[c].kind = "promise" =>
      /\ promise[c].kind = "pending" => (pc[c] # "done" /\ outcomes[c] = <<>>)
      /\ (pc[c] = "done" /\ promise[c].kind = "resolved")
           => outcomes[c] = <<Ok(promise[c].val)>>
      /\ (pc[c] = "done" /\ promise[c].kind = "rejected")
           => outcomes[c] = <<Err(promise[c].err)>>

C2_Witness ==
  \E c, d \in CallIds :
    /\ Finished(c, "await_call", "promise") /\ promise[c].kind = "resolved"
    /\ Finished(d, "await_call", "promise") /\ promise[d].kind = "rejected"

\* C3: on an unrecognized host value both operations return an error whose
\* message contains the pretty name of the expected type and never its raw
\* module-qualified name.
C3_UnknownNamesExpectedType ==
  \A c \in CallIds :
    (pc[c] = "done" /\ chan[c].kind = "unknown") =>
      /\ Len(outcomes[c]) = 1
      /\ outcomes[c][1].kind = "Err"
      /\ LET raw == RetTypeName(calls[c].handle)
             msg == outcomes[c][1].err.reason
         IN /\ Contains(msg, prettify_type_name(raw))
            /\ prettify_type_name(raw) # raw => ~Contains(msg, raw)

MarkerText ==
  <<"U","N","K","N","O","W","N","_","R","E","T","U","R","N","_","V","A","L","U","E",".">>
CannotConvertText == <<"C","a","n","n","o","t"," ","c","o","n","v","e","r","t">>
ReportedUnknownText ==
  <<"C","a","n","n","o","t"," ","c","o","n","v","e","r","t"," ",
    "u","n","k","n","o","w","n"," ","t","o"," ">>

\* C4: on an unrecognized host value neither operation returns Ok: each returns
\* an InvalidArg error whose message starts with "UNKNOWN_RETURN_VALUE.",
\* contains "Cannot convert" and reports the host type as "unknown".
C4_UnknownIsInvalidArg ==
  \A c \in CallIds :
    chan[c].kind = "unknown" =>
      /\ \A i \in 1..Len(outcomes[c]) : outcomes[c][i].kind = "Err"
      /\ pc[c] = "done" =>
           /\ Len(outcomes[c]) = 1
           /\ outcomes[c][1].err.status = "InvalidArg"
           /\ StartsWith(outcomes[c][1].err.reason, MarkerText)
           /\ Contains(outcomes[c][1].err.reason, CannotConvertText)
           /\ Contains(outcomes[c][1].err.reason, ReportedUnknownText)

C4_Witness ==
  \E c, d \in CallIds :
    /\ Finished(c, "invoke_async", "unknown")
    /\ Finished(d, "await_call", "unknown")

\* C5: an error e of the host call (a refused submission or a host-side
\* exception) is returned as Err(e), same status and same message; after a
\* refused submission nothing is classified, awaited or executed.
C5_HostCallErrorVerbatim ==
  \A c \in CallIds :
    /\ refusal[c] # NoErr =>
         /\ pc[c] = "done"
         /\ outcomes[c] = <<Err(refusal[c])>>
         /\ chan[c] = NoResult /\ promise[c] = NoPromise
         /\ execs[c] = 0 /\ ~InQueue(c)
    /\ (pc[c] = "done" /\ chan[c].kind = "error") =>
         /\ outcomes[c] = <<Err(chan[c].err)>>
         /\ promise[c] = NoPromise

C5_Witness ==
  \E c, d \in CallIds :
    /\ calls[c].op = "invoke_async" /\ refusal[c] # NoErr
    /\ calls[d].op = "await_call" /\ refusal[d] # NoErr
    /\ refusal[c] # refusal[d]
    /\ pc[c] = "done" /\ pc[d] = "done"

\* C6: calls submitted one after another by one thread on one handle reach the
\* host in submission order, whatever other threads and handles do.
C6_PerHandleFifo ==
  \A c, d \in CallIds :
    ( /\ c < d
      /\ Accepted(c) /\ Accepted(d)
      /\ calls[c].thread = calls[d].thread
      /\ calls[c].handle = calls[d].handle
      /\ Arrived(d) )
      => (Arrived(c) /\ Arrival(c) < Arrival(d))

C6_Witness ==
  /\ arrivals = <<1, 2, 3>>
  /\ calls[1].thread = calls[3].thread /\ calls[1].handle = calls[3].handle
  /\ calls[2].thread # calls[1].thread /\ calls[2].handle = calls[1].handle

\* C7: the host executes one call at a time, and every call the host accepted
\* is queued once and started exactly once, also when several threads use the
\* same handle.
C7_HostSerialExactlyOnce ==
  /\ Cardinality(running) <= 1
  /\ \A c \in CallIds :
       /\ QueuedCount(c) + execs[c] = (IF Accepted(c) THEN 1 ELSE 0)
       /\ c \in running => execs[c] = 1

C7_Witness ==
  \E c, d \in CallIds :
    /\ calls[c].thread # calls[d].thread
    /\ calls[c].handle = calls[d].handle
    /\ pc[c] = "await_host" /\ pc[d] = "await_host"
    /\ HostDone(c) /\ d \in running

\* C8: a completed invocation has exactly one outcome, a value Ok(v) or one
\* error, and an invocation that has not completed has none.
C8_SingleOutcome ==
  \A c \in CallIds :
    /\ Len(outcomes[c]) = (IF pc[c] = "done" THEN 1 ELSE 0)
    /\ \A i \in 1..Len(outcomes[c]) :
         \/ outcomes[c][i].kind = "Ok" /\ outcomes[c][i].err = NoErr
         \/ outcomes[c][i].kind = "Err" /\ outcomes[c][i].err # NoErr
                                        /\ outcomes[c][i].val = 0

C8_Witness ==
  \E c, d \in CallIds :
    /\ pc[c] = "done" /\ outcomes[c][1].kind = "Ok"
    /\ pc[d] = "done" /\ outcomes[d][1].kind = "Err"

\* C9: a call in the host queue is eventually executed to completion, also when
\* the task awaiting it is dropped: dropping never takes the call out of the queue.
C9_QueuedCallRuns ==
  \A c \in CallIds : InQueue(c) ~> HostDone(c)

C9_Witness ==
  \E c \in CallIds :
    pc[c] = "dropped" /\ chan[c] = NoResult /\ HostDone(c)

\* C10: an invocation calls call_async exactly once, whatever its outcome, and
\* its call is never in the host queue a second time.
C10_OneSubmission ==
  \A c \in CallIds :
    /\ submits[c] = (IF pc[c] = "idle" THEN 0 ELSE 1)
    /\ QueuedCount(c) + execs[c] <= 1

C10_Witness ==
  \E c, d \in CallIds :
    /\ pc[c] = "done" /\ refusal[c] # NoErr /\ submits[c] = 1
    /\ Finished(d, "await_call", "promise") /\ promise[d].kind = "rejected"
    /\ submits[d] = 1

\* The identifier at positions i..j of s is immediately followed by "::".
QualifierAt(s, i, j) ==
  /\ i <= j /\ j + 2 <= Len(s)
  /\ \A k \in i..j : s[k] \in WordChars
  /\ (i = 1 \/ s[i - 1] \notin WordChars)
  /\ s[j + 1] = ":" /\ s[j + 2] = ":"

\* Position p of s lies in a namespace qualifier: in an identifier immediately
\* followed by "::", or in that "::".
InQualifier(s, p) ==
  \E i \in 1..p : \E j \in i..Len(s) : QualifierAt(s, i, j) /\ p <= j + 2

\* s without its namespace qualifiers, every other character in place and order.
Unqualified(s) ==
  LET kept == {p \in 1..Len(s) : ~InQualifier(s, p)}
      nth(k) == CHOOSE p \in kept : Cardinality({q \in kept : q < p}) = k - 1
  IN [k \in 1..Cardinality(kept) |-> s[nth(k)]]

\* C11: pretty_type_name returns the type's name with every namespace qualifier
\* (each identifier immediately followed by "::") removed, at every position,
\* also inside generic arguments, every other character left in place and in
\* order; module::Sub::Type gives Type.
C11_QualifiersRemoved ==
  Len(passes) >= 1 =>
    /\ passes[1] = Unqualified(type_name)
    /\ type_name = RetTypeName(1) => passes[1] = <<"T","y","p","e">>

C11_Witness ==
  /\ type_name = RetTypeName(2)
  /\ Len(passes) >= 1
  /\ passes[1] = <<"V","e","c","<","T",">">>

\* Every ':' of s belongs to a "::" pair that no further ':' touches, as in the
\* paths of a name std::any::type_name returns.
ColonsPaired(s) ==
  /\ \A p \in 1..Len(s) :
       s[p] = ":" => \/ (p > 1 /\ s[p - 1] = ":")
                     \/ (p < Len(s) /\ s[p + 1] = ":")
  /\ \A p \in 1..(Len(s) - 2) : ~(s[p] = ":" /\ s[p + 1] = ":" /\ s[p + 2] = ":")

C12_HandleUnchanged ==
  handleFn = [h \in Handles |-> h]

C12_Witness ==
  \E c, d \in CallIds :
    /\ calls[c].handle = calls[d].handle
    /\ Finished(c, "invoke_async", "value")
    /\ Finished(d, "await_call", "promise") /\ promise[d].kind = "rejected"
    /\ handleFn[calls[c].handle] = calls[c].handle

\* The labels the handles' types are expected to be reported with.
ExpectedLabel(h) ==
  IF h = 1 THEN <<"T","y","p","e">> ELSE <<"V","e","c","<","T",">">>

OwnerLabel(h) ==
  <<"A","r","c","<","T","h","r","e","a","d","s","a","f","e","F","u","n","c","t","i","o","n","<",
    "(","i","3","2",",",")",","," ","E","i","t","h","e","r","<","E","i","t","h","e","r","<",
    "P","r","o","m","i","s","e","<">>
  \o ExpectedLabel(h) \o <<">",","," ">> \o ExpectedLabel(h) \o <<">",","," ",
    "U","n","k","n","o","w","n","R","e","t","u","r","n","V","a","l","u","e",">",",",
    " ","(","i","3","2",",",")",","," ","f","a","l","s","e",","," ","t","r","u","e",">",">">>

\* The message expected of await_call on each handle.
ExpectedMessages ==
  [h \in Handles |->
     MarkerText \o <<" ">> \o ReportedUnknownText \o <<BT>>
     \o ExpectedLabel(h) \o <<BT, " ", "i", "n", " ">> \o OwnerLabel(h) \o <<".">>]

\* C13: when the host returns an unrecognized value to await_call, the error
\* message names the pretty expected type and the pretty owning type of the
\* dispatcher, in the form
\* "UNKNOWN_RETURN_VALUE. Cannot convert unknown to <expected> in <owner>."
\* with the expected type between backticks.
C13_AwaitMessageForm ==
  \A c \in CallIds :
    (pc[c] = "done" /\ calls[c].op = "await_call" /\ chan[c].kind = "unknown") =>
      /\ Len(outcomes[c]) = 1
      /\ outcomes[c][1].kind = "Err"
      /\ outcomes[c][1].err.reason = ExpectedMessages[calls[c].handle]

C13_Witness ==
  \E c, d \in CallIds :
    /\ Finished(c, "await_call", "unknown") /\ calls[c].handle = 1
    /\ Finished(d, "await_call", "unknown") /\ calls[d].handle = 2
    /\ Contains(outcomes[d][1].err.reason, <<BT, "V", "e", "c", "<", "T", ">", BT>>)

\* C14: await_call awaits a deferred value exactly when the host result is
\* classified deferred: for a plain or an unrecognized value (or an error) it
\* completes at the delivery of the host result with no second await, for a
\* deferred value it never completes before the value settled. invoke_async
\* has one await, on the host call.
C14_SecondAwaitIffDeferred ==
  \A c \in CallIds :
    /\ pc[c] = "idle" => awaited[c] = <<>>
    /\ (pc[c] # "idle" /\ calls[c].op = "invoke_async")
         => awaited[c] = <<"call_async">>
    /\ (pc[c] # "idle" /\ calls[c].op = "await_call") =>
         /\ awaited[c] = IF chan[c].kind = "promise" /\ pc[c] # "await_host"
                         THEN <<"call_async", "promise">> ELSE <<"call_async">>
         /\ pc[c] = "await_promise" => chan[c].kind = "promise"
         /\ (pc[c] = "done" /\ chan[c].kind = "promise")
              => promise[c].kind \in {"resolved", "rejected"}

C14_Witness ==
  \E c, d \in CallIds :
    /\ Finished(c, "await_call", "promise") /\ awaited[c] = <<"call_async", "promise">>
    /\ Finished(d, "await_call", "value") /\ awaited[d] = <<"call_async">>

\* The value the host function behind the handle of call c gives for the
\* arguments call c was made with.
OwnValue(c) == HostValue(calls[c].handle, calls[c].args)

\* C15: under any interleaving of invocations in flight at once, on the same or
\* on different handles, the outcome of each is the one the host produced for
\* its own argument tuple, never the result or the deferred value of another.
C15_OwnOutcome ==
  \A c \in CallIds :
    /\ chan[c].kind = "value" => chan[c].val = OwnValue(c)
    /\ promise[c].kind = "resolved" => promise[c].val = OwnValue(c)
    /\ pc[c] = "done" => outcomes[c] = <<Ok(OwnValue(c))>>

C15_Witness ==
  \E c, d \in CallIds :
    /\ c < d
    /\ calls[c].thread # calls[d].thread
    /\ calls[c].handle = calls[d].handle
    /\ calls[c].args # calls[d].args
    /\ Finished(c, "await_call", "promise")
    /\ Finished(d, "invoke_async", "value")
    /\ outcomes[c] = <<Ok(calls[c].args + calls[c].handle)>>
    /\ outcomes[d] = <<Ok(calls[d].args + calls[d].handle)>>

\* C16: start invokes the listener at most once, from the task it spawned, and
\* returns nothing but Ok(()); its return does not depend on the listener call,
\* and an error of that call (a refused submission, a failed deferred value,
\* an unrecognized value) is printed and never becomes the result of start.
C16_StartDetachedOk ==
  watcher.op = "start" =>
    /\ Cardinality(ListenerCalls) <= 1
    /\ \A c \in CallIds : pc[c] # "idle" =>
         (c \in ListenerCalls /\ submits[c] = 1 /\ watcher.f # "none")
    /\ watcher.result = (IF watcher.pc = "returned" THEN <<Ok(0)>> ELSE <<>>)
    /\ watcher.f # "finished" => printed = <<>>
    /\ \A c \in ListenerCalls :
         watcher.f = "finished" =>
           /\ pc[c] = "done"
           /\ outcomes[c][1].kind = "Ok" => printed = <<>>
           /\ outcomes[c][1].kind = "Err" =>
                printed = <<[stream |-> "stdout", err |-> outcomes[c][1].err],
                            [stream |-> "stderr", err |-> outcomes[c][1].err]>>

C16_Witness ==
  /\ watcher.op = "start"
  /\ watcher.pc = "returned"
  /\ watcher.result = <<Ok(0)>>
  /\ \E c \in ListenerCalls : pc[c] = "await_host" /\ chan[c] = NoResult

\* C17: loop_spawn never completes: it awaits a spawned task that loops for
\* ever, so it returns no Ok(()), whether or not the listener call finishes.
C17_LoopSpawnNeverReturns ==
  watcher.op = "loop_spawn" =>
    /\ watcher.pc # "returned"
    /\ watcher.result = <<>>
    /\ watcher.helper \in {"spawned", "looping"}

C17_Witness ==
  /\ watcher.op = "loop_spawn"
  /\ watcher.pc = "await_helper"
  /\ watcher.helper = "looping" /\ watcher.spins = MaxSpins
  /\ watcher.f = "finished"
  /\ \E c \in ListenerCalls : pc[c] = "done"

\* C19: event_kind returns "close", "event", "restart" for Close, Event(_),
\* ReStart and never fails; bundle_event_kind returns "START", "BUNDLE_START",
\* "END" exactly when the inner value is Event(kind) and panics for Close and
\* ReStart; watch_change_data and bundle_end_data panic for every variant.
C19_EventAccessors ==
  \A i \in 1..Len(eventLog) :
    LET m == eventLog[i].method
        r == eventLog[i].result
    IN /\ m = "event_kind" =>
            /\ r.kind = "returned"
            /\ event.kind = "Close" => r.val = "close"
            /\ event.kind = "Event" => r.val = "event"
            /\ event.kind = "ReStart" => r.val = "restart"
       /\ m = "bundle_event_kind" =>
            /\ r.kind = "returned" <=> event.kind = "Event"
            /\ r.kind = "panic" <=> event.kind \in {"Close", "ReStart"}
            /\ event = [kind |-> "Event", bundle |-> "Start"] => r.val = "START"
            /\ event = [kind |-> "Event", bundle |-> "BundleStart"]
                 => r.val = "BUNDLE_START"
            /\ event = [kind |-> "Event", bundle |-> "End"] => r.val = "END"
       /\ m \in {"watch_change_data", "bundle_end_data"} => r.kind = "panic"

C19_Witness ==
  /\ event = [kind |-> "Event", bundle |-> "BundleStart"]
  /\ Len(eventLog) = 2
  /\ eventLog[1] = [method |-> "watch_change_data",
                    result |-> watch_change_data(event)]
  /\ eventLog[2] = [method |-> "bundle_event_kind",
                    result |-> Returned("BUNDLE_START")]
====
